---- MODULE Spec2Model ----
(***************************************************************************)
(* Model of bussines_chatbot.py: the credential verifier, the completion   *)
(* client (BusinessChatbot) and the script runs of main() over the         *)
(* Streamlit session state (logged_in, username, chat_history).            *)
(*                                                                         *)
(* Text typed by the user, prompts and upstream texts are Python strings   *)
(* that the code strips, tests for truth and embeds in templates; they are *)
(* modelled as sequences of atoms, an atom being one character or one      *)
(* literal chunk of the source.  Usernames, passwords and digests are only *)
(* looked up, hashed and compared, so they are whole TLA+ strings.         *)
(***************************************************************************)
EXTENDS Integers, Sequences, FiniteSets, TLC

VARIABLES
    logged_in,        \* st.session_state.logged_in
    username,         \* st.session_state.username
    chat_history,     \* st.session_state.chat_history: sequence of <<role, content>>
    api_key_present,  \* whether st.secrets holds NVIDIA_API_KEY
    pc,               \* "idle": no script run in progress; "posting": a run is blocked in requests.post
    run,              \* the trigger and widget values of the latest script run
    pending,          \* the request bodies POSTed and not yet answered
    posts,            \* number of POSTs issued by the latest script run
    response,         \* what get_response last returned to main
    cleared,          \* number of chat turns the latest logout discarded
    call              \* the latest direct call of one of the functions (SpecCalls)

vars == <<logged_in, username, chat_history, api_key_present, pc, run,
          pending, posts, response, cleared, call>>

session == <<logged_in, username, chat_history>>

----------------------------------------------------------------------------
(* Bounds *)

\* longest text passed to, or returned to, a direct call of a function
MaxLen == 3

\* most chat exchanges (a user turn and its assistant turn) in one session
MaxExchanges == 2

----------------------------------------------------------------------------
(* Strings *)

Chars == {"a", " "}

Whitespace == {" ", "\n", "\t"}

Text == UNION {[1..n -> Chars] : n \in 0..MaxLen}

\* what the user types into the text area, the text input or the chat input:
\* nothing, only whitespace, a word, a padded word
Typed == {<<>>, <<" ">>, <<"a">>, <<" ", "a">>}

\* the texts the upstream service completes a session's prompts with
ReplyTexts == {<<>>, <<"a">>, <<" ", "a", " ">>}

RECURSIVE lstrip(_)
lstrip(s) ==
    IF s # <<>> /\ Head(s) \in Whitespace THEN lstrip(Tail(s)) ELSE s

RECURSIVE rstrip(_)
rstrip(s) ==
    IF s # <<>> /\ s[Len(s)] \in Whitespace
    THEN rstrip(SubSeq(s, 1, Len(s) - 1))
    ELSE s

\* str.strip(): leading and trailing whitespace removed
strip(s) == rstrip(lstrip(s))

\* t occurs in s as a contiguous substring
Contains(s, t) ==
    \E i \in 1..(Len(s) - Len(t) + 1) : SubSeq(s, i, i + Len(t) - 1) = t

IsPrefix(s, t) ==
    Len(s) <= Len(t) /\ SubSeq(t, 1, Len(s)) = s

----------------------------------------------------------------------------
(* User authentication *)

\* hashlib.sha256(p.encode()).hexdigest(): a one-way digest, distinct for
\* distinct passwords (collision resistance), and never equal to a plaintext
sha256(p) == <<"sha256", p>>

\* the plaintext passwords the table is built from
registered == [Moin |-> "user1", user2 |-> "password2"]

users == [u \in DOMAIN registered |-> sha256(registered[u])]

Usernames == {"Moin", "user2", "", "moin", "user1", "admin"}

Passwords == {"user1", "password2", "", "User1", "Moin"}

\* variant: the password is not compared
verify_password_any(u, password) == u \in DOMAIN users

\* verify_password(username, password)
verify_password(u, password) ==
    IF u \in DOMAIN users
    THEN LET hashed_input == sha256(password)
         IN  users[u] = hashed_input
    ELSE FALSE

----------------------------------------------------------------------------
(* BusinessChatbot *)

\* variant: the run goes on without the key
BusinessChatbot_degraded == TRUE

\* BusinessChatbot(): TRUE when the client is constructed, FALSE when the
\* key is missing and st.stop() ends the script run
BusinessChatbot_init == api_key_present

ModelId == "nvidia/mistral-nemo-minitron-8b-base"

Fallback == <<"An error occurred while processing your request. Please try again later.">>

\* variant: stream switched on
get_response_data_streaming(prompt, max_tokens) ==
    [model |-> ModelId, prompt |-> prompt, temperature |-> 70, top_p |-> 95,
     max_tokens |-> max_tokens, stream |-> TRUE]

\* the JSON body get_response posts; temperature and top_p in hundredths
get_response_data(prompt, max_tokens) ==
    [model |-> ModelId, prompt |-> prompt, temperature |-> 70, top_p |-> 95,
     max_tokens |-> max_tokens, stream |-> FALSE]

(* JSON values of a response body *)
JNull == [t |-> "null", v |-> <<>>]
JStr(s) == [t |-> "str", v |-> s]
JList(items) == [t |-> "list", v |-> items]
JObj(fields) == [t |-> "obj", v |-> fields]

\* the outcome of a subscript that raises KeyError, IndexError or TypeError
Raised == [t |-> "raise", v |-> <<>>]

\* v[key] for a string key
GetKey(v, key) ==
    IF v.t = "obj" /\ key \in DOMAIN v.v THEN v.v[key] ELSE Raised

\* v[0]
GetFirst(v) ==
    IF v.t = "list" /\ Len(v.v) >= 1 THEN v.v[1]
    ELSE IF v.t = "str" /\ Len(v.v) >= 1 THEN JStr(<<v.v[1]>>)
    ELSE Raised

\* the bodies the upstream service may answer with
NotJson == [t |-> "notjson", v |-> <<>>]

Completion(s) == JObj([choices |-> JList(<<JObj([text |-> JStr(s)])>>)])

BodiesWith(texts) ==
    {NotJson, JNull, JList(<<>>),
     JObj([error |-> JStr(<<"a">>)]),
     JObj([choices |-> JNull]),
     JObj([choices |-> JList(<<>>)]),
     JObj([choices |-> JStr(<<"a">>)]),
     JObj([choices |-> JList(<<JNull>>)]),
     JObj([choices |-> JList(<<JObj([index |-> JNull])>>)]),
     JObj([choices |-> JList(<<JObj([text |-> JNull])>>)]),
     JObj([choices |-> JList(<<JObj([text |-> JStr(<<"a">>)]), JNull>>)])}
    \cup {Completion(s) : s \in texts}

Statuses == {200, 204, 304, 404, 500}

\* what requests.post does: raise, or return a response
OutcomesWith(texts) ==
    {[kind |-> "raise", exc |-> e, status |-> 0, body |-> NotJson] :
        e \in {"ConnectionError", "Timeout"}}
    \cup {[kind |-> "http", exc |-> "", status |-> s, body |-> b] :
            s \in Statuses, b \in BodiesWith(texts)}

Outcomes == OutcomesWith(Text)

SessionOutcomes == OutcomesWith(ReplyTexts)

\* response.raise_for_status() raises HTTPError for 4xx and 5xx
raise_for_status(status) == 400 <= status /\ status < 600

\* variant: the text is returned without .strip()
get_response_result_untrimmed(o) ==
    IF o.kind = "raise" THEN Fallback
    ELSE IF raise_for_status(o.status) THEN Fallback
    ELSE IF o.body.t = "notjson" THEN Fallback
    ELSE LET text == GetKey(GetFirst(GetKey(o.body, "choices")), "text")
         IN  IF text.t = "str" THEN text.v ELSE Fallback

\* what get_response returns for an outcome of requests.post
get_response_result(o) ==
    IF o.kind = "raise" THEN Fallback
    ELSE IF raise_for_status(o.status) THEN Fallback
    ELSE IF o.body.t = "notjson" THEN Fallback
    ELSE LET text == GetKey(GetFirst(GetKey(o.body, "choices")), "text")
         IN  IF text.t = "str" THEN strip(text.v) ELSE Fallback

QAHeader == "You are a professional business assistant. Please provide a helpful and insightful answer to the following business-related question:"

QAPrompt(question) ==
    <<QAHeader, "\n", "\n", "Question: ">> \o question \o <<"\n", "\n", "Answer:">>

BrainstormHeader == "You are a creative business strategist. Please brainstorm innovative ideas related to the following business topic:"

BrainstormPrompt(topic) ==
    <<BrainstormHeader, "\n", "\n", "Topic: ">> \o topic \o <<"\n", "\n", "Ideas:">>

\* variant: max_tokens left at get_response's default
answer_business_question_default(question) ==
    get_response_data(QAPrompt(question), 200)

\* the request answer_business_question(question) has get_response post
answer_business_question(question) ==
    get_response_data(QAPrompt(question), 300)

\* the request brainstorm_ideas(topic) has get_response post
brainstorm_ideas(topic) ==
    get_response_data(BrainstormPrompt(topic), 400)

----------------------------------------------------------------------------
(* main(): one script run per user trigger *)

NoRun == [kind |-> "none", text |-> <<>>, user |-> "", password |-> ""]

NoResponse == [returned |-> FALSE, text |-> <<>>]

NoCall == [fn |-> "none"]

Init ==
    /\ logged_in = FALSE
    /\ username = ""
    /\ chat_history = <<>>
    /\ api_key_present \in BOOLEAN
    /\ pc = "idle"
    /\ run = NoRun
    /\ pending = <<>>
    /\ posts = 0
    /\ response = NoResponse
    /\ cleared = 0
    /\ call = NoCall

\* a run that ends without calling get_response
NoRequest ==
    /\ posts' = 0
    /\ response' = NoResponse
    /\ UNCHANGED <<pending, pc>>

\* a run that reaches requests.post with the given body and blocks there
Post(data) ==
    /\ posts' = 1
    /\ response' = NoResponse
    /\ pending' = Append(pending, data)
    /\ pc' = "posting"

\* variant: the verdict of verify_password is ignored
Login_unchecked(u, password) ==
    /\ pc = "idle"
    /\ ~logged_in
    /\ run' = [kind |-> "login", text |-> <<>>, user |-> u, password |-> password]
    /\ logged_in' = TRUE
    /\ username' = u
    /\ NoRequest
    /\ UNCHANGED <<chat_history, api_key_present, cleared, call>>

\* the login form is submitted with (u, password)
Login(u, password) ==
    /\ pc = "idle"
    /\ ~logged_in
    /\ run' = [kind |-> "login", text |-> <<>>, user |-> u, password |-> password]
    /\ IF verify_password(u, password)
       THEN /\ logged_in' = TRUE
            /\ username' = u
       ELSE UNCHANGED <<logged_in, username>>
    /\ NoRequest
    /\ UNCHANGED <<chat_history, api_key_present, cleared, call>>

\* variant: chat_history is not reset
Logout_keeps_history ==
    /\ pc = "idle"
    /\ logged_in
    /\ run' = [NoRun EXCEPT !.kind = "logout"]
    /\ logged_in' = FALSE
    /\ username' = ""
    /\ cleared' = Len(chat_history)
    /\ NoRequest
    /\ UNCHANGED <<chat_history, api_key_present, call>>

\* the sidebar's Logout button is pressed
Logout ==
    /\ pc = "idle"
    /\ logged_in
    /\ run' = [NoRun EXCEPT !.kind = "logout"]
    /\ logged_in' = FALSE
    /\ username' = ""
    /\ chat_history' = <<>>
    /\ cleared' = Len(chat_history)
    /\ NoRequest
    /\ UNCHANGED <<api_key_present, call>>

\* Get Answer is pressed with the text area holding question
GetAnswer(question) ==
    /\ pc = "idle"
    /\ logged_in
    /\ run' = [NoRun EXCEPT !.kind = "get_answer", !.text = question]
    /\ IF ~BusinessChatbot_init THEN NoRequest
       ELSE IF strip(question) = <<>> THEN NoRequest
       ELSE Post(answer_business_question(question))
    /\ UNCHANGED <<session, api_key_present, cleared, call>>

\* Generate Ideas is pressed with the text input holding topic
GenerateIdeas(topic) ==
    /\ pc = "idle"
    /\ logged_in
    /\ run' = [NoRun EXCEPT !.kind = "generate_ideas", !.text = topic]
    /\ IF ~BusinessChatbot_init THEN NoRequest
       ELSE IF strip(topic) = <<>> THEN NoRequest
       ELSE Post(brainstorm_ideas(topic))
    /\ UNCHANGED <<session, api_key_present, cleared, call>>

\* variant: the user turn is not appended
ChatInput_no_user_turn(user_input) ==
    /\ pc = "idle"
    /\ logged_in
    /\ Len(chat_history) < 2 * MaxExchanges
    /\ run' = [NoRun EXCEPT !.kind = "chat_input", !.text = user_input]
    /\ IF ~BusinessChatbot_init \/ user_input = <<>> THEN NoRequest
       ELSE Post(answer_business_question(user_input))
    /\ UNCHANGED <<session, api_key_present, cleared, call>>

\* the chat input is submitted with user_input
ChatInput(user_input) ==
    /\ pc = "idle"
    /\ logged_in
    /\ Len(chat_history) < 2 * MaxExchanges
    /\ run' = [NoRun EXCEPT !.kind = "chat_input", !.text = user_input]
    /\ IF ~BusinessChatbot_init
       THEN NoRequest /\ UNCHANGED chat_history
       ELSE IF user_input = <<>>
       THEN NoRequest /\ UNCHANGED chat_history
       ELSE /\ chat_history' = Append(chat_history, <<"user", user_input>>)
            /\ Post(answer_business_question(user_input))
    /\ UNCHANGED <<logged_in, username, api_key_present, cleared, call>>

\* variant: a failed attempt is retried once
PostReturns_retrying(o) ==
    /\ pc = "posting"
    /\ IF get_response_result(o) = Fallback /\ posts < 2
       THEN /\ posts' = posts + 1
            /\ UNCHANGED <<pc, pending, response, chat_history>>
       ELSE /\ response' = [returned |-> TRUE, text |-> get_response_result(o)]
            /\ pending' = Tail(pending)
            /\ chat_history' =
                 IF run.kind = "chat_input"
                 THEN Append(chat_history, <<"assistant", get_response_result(o)>>)
                 ELSE chat_history
            /\ pc' = "idle"
            /\ UNCHANGED posts
    /\ UNCHANGED <<logged_in, username, api_key_present, run, cleared, call>>

\* requests.post ends with outcome o; get_response returns and the run goes
\* on to its end
PostReturns(o) ==
    /\ pc = "posting"
    /\ response' = [returned |-> TRUE, text |-> get_response_result(o)]
    /\ pending' = Tail(pending)
    /\ chat_history' =
         IF run.kind = "chat_input"
         THEN Append(chat_history, <<"assistant", get_response_result(o)>>)
         ELSE chat_history
    /\ pc' = "idle"
    /\ UNCHANGED <<logged_in, username, api_key_present, run, posts, cleared, call>>

\* the operator adds NVIDIA_API_KEY to, or removes it from, the secrets that
\* every script run reads anew
SecretsChange(present) ==
    /\ pc = "idle"
    /\ present # api_key_present
    /\ api_key_present' = present
    /\ UNCHANGED <<session, pc, run, pending, posts, response, cleared, call>>

Next ==
    \/ \E u \in Usernames, password \in Passwords : Login(u, password)
    \/ Logout
    \/ \E question \in Typed : GetAnswer(question)
    \/ \E topic \in Typed : GenerateIdeas(topic)
    \/ \E user_input \in Typed : ChatInput(user_input)
    \/ \E o \in SessionOutcomes : PostReturns(o)
    \/ \E present \in BOOLEAN : SecretsChange(present)

Spec == Init /\ [][Next]_vars

----------------------------------------------------------------------------
(* Direct calls of the functions, over all their inputs *)

MaxTokens == {200, 300, 400}

main_state == <<logged_in, username, chat_history, api_key_present, pc, run,
                pending, posts, response, cleared>>

CallVerify(u, password) ==
    /\ call = NoCall
    /\ call' = [fn |-> "verify_password", user |-> u, password |-> password,
                returned |-> verify_password(u, password)]
    /\ UNCHANGED main_state

CallGetResponse(prompt, max_tokens, o) ==
    /\ call = NoCall
    /\ call' = [fn |-> "get_response", prompt |-> prompt,
                max_tokens |-> max_tokens, outcome |-> o,
                sent |-> get_response_data(prompt, max_tokens),
                returned |-> get_response_result(o)]
    /\ UNCHANGED main_state

CallAnswer(question, o) ==
    /\ call = NoCall
    /\ call' = [fn |-> "answer_business_question", arg |-> question, outcome |-> o,
                sent |-> answer_business_question(question),
                returned |-> get_response_result(o)]
    /\ UNCHANGED main_state

CallBrainstorm(topic, o) ==
    /\ call = NoCall
    /\ call' = [fn |-> "brainstorm_ideas", arg |-> topic, outcome |-> o,
                sent |-> brainstorm_ideas(topic),
                returned |-> get_response_result(o)]
    /\ UNCHANGED main_state

\* the call's result is consumed; the next call can be made
CallEnds ==
    /\ call # NoCall
    /\ call' = NoCall
    /\ UNCHANGED main_state

NextCalls ==
    \/ \E u \in Usernames, password \in Passwords : CallVerify(u, password)
    \/ \E prompt \in Typed, max_tokens \in MaxTokens, o \in Outcomes :
          CallGetResponse(prompt, max_tokens, o)
    \/ \E question \in Text, o \in Outcomes : CallAnswer(question, o)
    \/ \E topic \in Text, o \in Outcomes : CallBrainstorm(topic, o)
    \/ CallEnds

\* the calls are made on a constructed client
InitCalls == Init /\ api_key_present

SpecCalls == InitCalls /\ [][NextCalls]_vars

----------------------------------------------------------------------------
(* Properties *)

InputKinds == {"get_answer", "generate_ideas", "chat_input"}

\* this step is the start of a script run (run' holds its trigger)
RunStarts == pc = "idle" /\ api_key_present' = api_key_present

RegisteredPair(u, password) ==
    u \in DOMAIN registered /\ password = registered[u]

\* C1: verify_password(username, password) is true exactly when username is
\* a key of the users table and password is the plaintext registered for it;
\* it is false for any other password and for any unknown username,
\* the empty string included.
C1_VerifyExact ==
    call.fn = "verify_password" =>
        (call.returned <=> RegisteredPair(call.user, call.password))

C1_Witness ==
    /\ call.fn = "verify_password"
    /\ call.user = "Moin"
    /\ call.password = "user1"
    /\ call.returned = TRUE

RoleAt(i) == IF i % 2 = 1 THEN "user" ELSE "assistant"

Alternating ==
    \A i \in 1..Len(chat_history) : chat_history[i][1] = RoleAt(i)

\* a step leaves chat_history alone, appends the turn of the run in progress,
\* or is the logout that clears it
AppendOnlyStep ==
    \/ chat_history' = chat_history
    \/ chat_history' = Append(chat_history, <<"user", run'.text>>)
    \/ chat_history' = Append(chat_history, <<"assistant", response'.text>>)
    \/ run'.kind = "logout" /\ chat_history' = <<>>

C3_NoLeakAcrossSessions ==
    [][(~logged_in /\ logged_in') => chat_history' = <<>>]_vars

C3_Witness ==
    /\ logged_in
    /\ run.kind = "login"
    /\ cleared > 0
    /\ chat_history = <<>>

\* the body is well formed: an object whose choices is a list whose first
\* item is an object with a string text
WellFormed(body) ==
    /\ body.t = "obj"
    /\ "choices" \in DOMAIN body.v
    /\ body.v.choices.t = "list"
    /\ Len(body.v.choices.v) >= 1
    /\ body.v.choices.v[1].t = "obj"
    /\ "text" \in DOMAIN body.v.choices.v[1].v
    /\ body.v.choices.v[1].v.text.t = "str"

ChoiceText(body) == body.v.choices.v[1].v.text.v

Returns(c) ==
    c.fn \in {"get_response", "answer_business_question", "brainstorm_ideas"}

\* C4 as stated: get_response returns the trimmed choices[0].text when the
\* call succeeds with a 2xx status and a well-formed body, and the fixed
\* fallback string in every other case, a non-2xx status included.
C4_FallbackUnlessTwoHundred ==
    Returns(call) =>
        call.returned =
            IF /\ call.outcome.kind = "http"
               /\ call.outcome.status \in 200..299
               /\ WellFormed(call.outcome.body)
            THEN strip(ChoiceText(call.outcome.body))
            ELSE Fallback

\* C4 as amended: get_response always returns a string; it is the trimmed
\* choices[0].text when requests.post returns a response whose status is not
\* 4xx or 5xx and whose body is well formed, and the fixed fallback string
\* in every other case (network error, timeout, 4xx or 5xx status, malformed
\* JSON, missing choices or text).
C4_FallbackUnlessNoErrorStatus ==
    Returns(call) =>
        call.returned =
            IF /\ call.outcome.kind = "http"
               /\ ~(call.outcome.status \in 400..599)
               /\ WellFormed(call.outcome.body)
            THEN strip(ChoiceText(call.outcome.body))
            ELSE Fallback

C4_Witness ==
    /\ call.fn = "get_response"
    /\ call.outcome.kind = "http"
    /\ call.outcome.status = 304
    /\ call.outcome.body = Completion(<<" ", "a", " ">>)
    /\ call.returned = <<"a">>

\* C5 as stated: a chat submission is sent with the Business Q&A prompt
\* template and max_tokens = 200.
C5_ChatSendsTwoHundred ==
    (pc = "posting" /\ run.kind = "chat_input") =>
        /\ Len(pending) = 1
        /\ pending[1].prompt = QAPrompt(run.text)
        /\ pending[1].max_tokens = 200

\* C5 as amended: a chat submission is sent with the Business Q&A prompt
\* template and max_tokens = 300.
C5_ChatSendsThreeHundred ==
    (pc = "posting" /\ run.kind = "chat_input") =>
        /\ Len(pending) = 1
        /\ pending[1].prompt = QAPrompt(run.text)
        /\ pending[1].max_tokens = 300

C5_Witness ==
    /\ pc = "posting"
    /\ run.kind = "chat_input"
    /\ run.text = <<"a">>
    /\ Len(pending) = 1

FixedConstants(data) ==
    /\ DOMAIN data =
         {"model", "prompt", "temperature", "top_p", "max_tokens", "stream"}
    /\ data.model = "nvidia/mistral-nemo-minitron-8b-base"
    /\ data.temperature = 70
    /\ data.top_p = 95
    /\ data.stream = FALSE

\* C6: answer_business_question(q) posts a prompt containing "Question: "
\* followed by q with max_tokens = 300; brainstorm_ideas(t) posts a prompt
\* containing "Topic: " followed by t with max_tokens = 400; every body
\* carries exactly the caller's prompt and max_tokens together with
\* temperature 0.7, top_p 0.95, stream false and the fixed model id.
C6_RequestBody ==
    /\ call.fn = "answer_business_question" =>
          /\ Contains(call.sent.prompt, <<"Question: ">> \o call.arg)
          /\ call.sent.max_tokens = 300
          /\ FixedConstants(call.sent)
    /\ call.fn = "brainstorm_ideas" =>
          /\ Contains(call.sent.prompt, <<"Topic: ">> \o call.arg)
          /\ call.sent.max_tokens = 400
          /\ FixedConstants(call.sent)
    /\ call.fn = "get_response" =>
          /\ call.sent.prompt = call.prompt
          /\ call.sent.max_tokens = call.max_tokens
          /\ FixedConstants(call.sent)

C6_Witness ==
    /\ call.fn = "brainstorm_ideas"
    /\ call.arg = <<"a", " ", "a">>
    /\ call.sent.max_tokens = 400

\* C7: on each of the three input paths, a submitted text that is empty or
\* only whitespace issues no completion request and leaves chat_history
\* unchanged.
C7_BlankInputRejected ==
    [][(RunStarts /\ run'.kind \in InputKinds /\ strip(run'.text) = <<>>)
          => (pending' = pending /\ chat_history' = chat_history)]_vars

\* C8: while the API key is missing no request is issued and no chat turn
\* is appended, whatever triggered the run; of the triggers of a logged-in
\* run only logout changes the session.
C8_MissingKeyHalts ==
    /\ [](~api_key_present => (pc = "idle" /\ pending = <<>>))
    /\ [][(~api_key_present /\ ~api_key_present') =>
            /\ pending' = <<>>
            /\ posts' = 0
            /\ ~response'.returned
            /\ \/ chat_history' = chat_history
               \/ run'.kind = "logout" /\ chat_history' = <<>>
            /\ logged_in => (run'.kind = "logout" \/ UNCHANGED session)]_vars

C8_Witness ==
    /\ ~api_key_present
    /\ logged_in
    /\ run.kind = "chat_input"
    /\ run.text = <<"a">>
    /\ posts = 0
    /\ Len(chat_history) = 2

\* the run started by this step reaches get_response
Accepted ==
    /\ RunStarts
    /\ logged_in
    /\ api_key_present
    /\ \/ run'.kind \in {"get_answer", "generate_ideas"} /\ strip(run'.text) # <<>>
       \/ run'.kind = "chat_input" /\ run'.text # <<>>

\* C9: a trigger that reaches the client causes exactly one POST, also when
\* the attempt fails (no retry); a request is issued only by a trigger and
\* only after the previous one has returned, so a session never has more
\* than one request in flight.
C9_OnePostNoRetry ==
    /\ [](/\ Len(pending) <= 1
          /\ posts <= 1
          /\ (pc = "posting") <=> (Len(pending) = 1)
          /\ (pc = "posting" \/ response.returned) => posts = 1)
    /\ [][/\ Accepted => (posts' = 1 /\ Len(pending') = 1)
          /\ Len(pending') > Len(pending) =>
                (pending = <<>> /\ RunStarts /\ run'.kind \in InputKinds)
          /\ pc = "posting" =>
                (pc' = "idle" /\ pending' = <<>> /\ posts' = posts
                   /\ response'.returned)]_vars

C9_Witness ==
    /\ pc = "idle"
    /\ run.kind = "generate_ideas"
    /\ response.returned
    /\ response.text = Fallback
    /\ posts = 1

\* C10: while logged_in is false the username is '', chat_history is empty,
\* no request is issued and no turn is appended; logged_in becomes true only
\* by a login attempt that verify_password accepts, and then username is a
\* key of the users table; a failed login leaves the session unchanged.
C10_AuthenticationGates ==
    /\ [](/\ ~logged_in =>
               (username = "" /\ chat_history = <<>> /\ pending = <<>>
                  /\ pc = "idle" /\ posts = 0)
          /\ logged_in => username \in DOMAIN users)
    /\ [][/\ ~logged_in => (pending' = <<>> /\ chat_history' = <<>>)
          /\ (~logged_in /\ logged_in') =>
                /\ run'.kind = "login"
                /\ verify_password(run'.user, run'.password)
                /\ username' = run'.user
          /\ (~logged_in /\ run'.kind = "login"
                /\ ~verify_password(run'.user, run'.password)) =>
                UNCHANGED session]_vars

C10_Witness ==
    /\ logged_in
    /\ run.kind = "login"
    /\ username = "user2"
    /\ run.user = "user2"
    /\ run.password = "password2"

====
